---- MODULE Spec2Model ----
(***************************************************************************)
(* NetSourceAI: the tool-calling conversation loop of Ai_Management        *)
(* (code/ai_management.py) driven by the chat handlers of GUI              *)
(* (code/app.py), with the tools of Tools_Class (code/tools_management.py) *)
(* as black boxes that return a text.                                      *)
(*                                                                         *)
(* Python lists are objects: `heap` maps a list object to its contents,    *)
(* and `history` and `system_prompt` hold references into it.              *)
(* One Ai_Management instance is modelled over a sequence of turns and     *)
(* clear-history clicks; a turn is split at its suspension points (the two *)
(* model calls, each tool call of the batch, each stream fragment).        *)
(***************************************************************************)
EXTENDS Integers, Sequences, FiniteSets, TLC

(* ---- bounds of the model -------------------------------------------- *)
MaxHist == 6      \* no turn is begun or batch accepted that would grow the history past this
MaxCalls == 2     \* tool calls in one model response
MaxChunks == 2    \* fragments delivered by one stream

(* ---- input vocabularies --------------------------------------------- *)
None == "<None>"                       \* Python's None, where a text may be absent
SystemPrompt == "You are NetSourceAI."  \* config["system_prompt"]
UserInputs == {"Hello", "What time is it?"}
Contents == {"Hi there!", None}        \* message.content of a response without tool calls
Deltas == {"It is ", None}             \* delta.content of one stream fragment
StreamDeltas == {"It is ", "noon.", "", None}  \* the same, for the stream-centred runs
Temperatures == {7}                    \* tenths; config["model"]["default_temperature"]
ToolNames == {"fetch_wikipedia_information", "fetch_internet_information",
              "get_current_date_and_time", "unknown_tool"}
RawArguments == {"{not json", "{}", "{\"query\": \"q\", \"wikipedia_query\": \"q\"}"}

(* ---- pure helpers ---------------------------------------------------- *)

\* json.loads on the raw argument strings above: a dict, or a raised error.
json_loads(raw) ==
    CASE raw = "{}" -> [raised |-> FALSE, value |-> [keys |-> {}, val |-> "q"]]
      [] raw = "{\"query\": \"q\", \"wikipedia_query\": \"q\"}" ->
            [raised |-> FALSE,
             value |-> [keys |-> {"query", "wikipedia_query"}, val |-> "q"]]
      [] OTHER -> [raised |-> TRUE, value |-> [keys |-> {}, val |-> "q"]]

\* try: args = json.loads(arguments)  except Exception: args = {}
ParseArgs(raw) ==
    IF json_loads(raw).raised THEN [keys |-> {}, val |-> "q"] ELSE json_loads(raw).value

\* json.dumps({"status": "success", "message": result})
json_dumps(status, message) ==
    "{\"status\": \"" \o status \o "\", \"message\": \"" \o message \o "\"}"

\* The texts the three tool callables can return (each absorbs its own exceptions).
fetch_wikipedia_information(q) ==
    {"Page 1 - Title: " \o q, "Error during Wikipedia search for " \o q \o ": timeout"}
fetch_internet_information(q) ==
    {"Title: " \o q, "Search error: timeout"}
get_current_date_and_time ==
    {"The current date and time is: 2026-01-01 12:00:00"}

UnknownToolMessage == "Error: not all variables have been provided."

\* Dispatch without its final else branch: an unknown name leaves `result` unbound
\* and the use of it raises.
Dispatch_NoFallback(name, args) ==
    IF name = "fetch_wikipedia_information" THEN
        IF "wikipedia_query" \in args.keys
        THEN [raised |-> FALSE, called |-> TRUE, results |-> fetch_wikipedia_information(args.val)]
        ELSE [raised |-> TRUE, called |-> FALSE, results |-> {}]
    ELSE IF name = "fetch_internet_information" THEN
        IF "query" \in args.keys
        THEN [raised |-> FALSE, called |-> TRUE, results |-> fetch_internet_information(args.val)]
        ELSE [raised |-> TRUE, called |-> FALSE, results |-> {}]
    ELSE IF name = "get_current_date_and_time" THEN
        [raised |-> FALSE, called |-> TRUE, results |-> get_current_date_and_time]
    ELSE
        [raised |-> TRUE, called |-> FALSE, results |-> {}]

\* Dispatch of one tool call (the if/elif chain): raised is TRUE when args[key]
\* raises KeyError; otherwise results is the set of texts `result` can be bound to
\* and called tells whether a tool callable was invoked.
Dispatch(name, args) ==
    IF name = "fetch_wikipedia_information" THEN
        IF "wikipedia_query" \in args.keys
        THEN [raised |-> FALSE, called |-> TRUE, results |-> fetch_wikipedia_information(args.val)]
        ELSE [raised |-> TRUE, called |-> FALSE, results |-> {}]
    ELSE IF name = "fetch_internet_information" THEN
        IF "query" \in args.keys
        THEN [raised |-> FALSE, called |-> TRUE, results |-> fetch_internet_information(args.val)]
        ELSE [raised |-> TRUE, called |-> FALSE, results |-> {}]
    ELSE IF name = "get_current_date_and_time" THEN
        [raised |-> FALSE, called |-> TRUE, results |-> get_current_date_and_time]
    ELSE
        [raised |-> FALSE, called |-> FALSE, results |-> {UnknownToolMessage}]

(* ---- messages -------------------------------------------------------- *)
SystemMessage == [role |-> "system", content |-> SystemPrompt]
UserMessage(m) == [role |-> "user", content |-> m]
\* The assistant message with its content passed through str(), as the user's is.
AssistantMessage_Stringified(c) ==
    [role |-> "assistant", content |-> IF c = None THEN "None" ELSE c]
AssistantMessage(c) == [role |-> "assistant", content |-> c]
\* The declaration of the first request of the batch only.
ToolCallsMessage_FirstOnly(calls) ==
    [role |-> "assistant",
     tool_calls |-> <<[id |-> calls[1].id, type |-> calls[1].type,
                      function |-> calls[1].function]>>]
ToolCallsMessage(calls) ==
    [role |-> "assistant",
     tool_calls |-> [i \in 1..Len(calls) |->
                        [id |-> calls[i].id, type |-> calls[i].type,
                         function |-> calls[i].function]]]
ToolMessage(result, id) ==
    [role |-> "tool", content |-> json_dumps("success", result), tool_call_id |-> id]

\* One tool-call request of a response.
ToolCall(id, name, raw) ==
    [id |-> id, type |-> "function", function |-> [name |-> name, arguments |-> raw]]

\* The ids of a response of n requests: distinct, in or against the order of the requests.
CallIds(n) == {[i \in 1..n |-> i], [i \in 1..n |-> n + 1 - i]}

\* The batches of n requests a response can carry.
Batches(n) ==
    { [i \in 1..n |-> ToolCall(ids[i], f[i].name, f[i].arguments)] :
        ids \in CallIds(n),
        f \in [1..n -> [name : ToolNames, arguments : RawArguments]] }

\* Batches of n requests that never fail: the time tool or an unknown tool, no arguments.
LeanBatches(n) ==
    { [i \in 1..n |-> ToolCall(ids[i], f[i], "{}")] :
        ids \in CallIds(n),
        f \in [1..n -> {"get_current_date_and_time", "unknown_tool"}] }

(* ---- state ----------------------------------------------------------- *)
VARIABLES
    heap,           \* list object -> its contents
    history,        \* Ai_Management.history: a reference to a list object
    system_prompt,  \* Ai_Management.system_prompt: a reference to a list object
    temperature,    \* Ai_Management.temperature
    messages,       \* st.session_state.messages
    pc,             \* where the current turn stands
    message,        \* the argument of the current call of generation_loop
    tool_calls,     \* the batch of the current turn
    idx,            \* index of the next tool call of the batch to process
    ai_output,      \* text accumulated from the stream
    chunks,         \* fragments delivered so far by the current stream
    fragments,      \* the delta.content of each of them, in arrival order
    request,        \* the last request sent to the model endpoint
    n_requests,     \* model requests sent in the current turn
    response,       \* what the first call of the current turn answered, if it did
    executed,       \* the tool calls of the batch that got a result this turn, in order
    turn_start,     \* contents of the history when the current turn was invoked
    outcome,        \* "none", "running", "returned", or the exception the turn raised
    ret             \* value returned by the last turn

vars == <<heap, history, system_prompt, temperature, messages, pc, message, tool_calls, idx,
          ai_output, chunks, fragments, request, n_requests, response, executed, turn_start,
          outcome, ret>>

Hist == heap[history]
\* list.append(m) on the list object ref
ListAppend(ref, m) == [heap EXCEPT ![ref] = Append(@, m)]

ModelName == "model-name"               \* config["model"]["name"]
ToolSchema == "tools_definition.json"   \* Tools_Class.ai_tools, loaded once

\* Nothing sent yet; nothing answered yet.
NoRequest == [messages |-> <<>>]
NoResponse == [received |-> FALSE, tool_calls |-> <<>>]

Init ==
    /\ heap = [L \in {"list0"} |-> <<SystemMessage>>]
    /\ system_prompt = "list0"
    /\ history = "list0"
    /\ temperature \in Temperatures
    /\ messages = <<>>
    /\ pc = "idle"
    /\ message = None
    /\ tool_calls = <<>>
    /\ idx = 1
    /\ ai_output = ""
    /\ chunks = 0
    /\ fragments = <<>>
    /\ request = NoRequest
    /\ n_requests = 0
    /\ response = NoResponse
    /\ executed = <<>>
    /\ turn_start = <<SystemMessage>>
    /\ outcome = "none"
    /\ ret = None

(* ---- a turn: GUI._process_chat_response -> Ai_Management.generation_loop ---- *)

\* The user submits m: it is shown in the chat, appended to the history, and the
\* first (non-streamed, tool-enabled) request is sent.
UserInput(m) ==
    /\ pc = "idle"
    /\ Len(Hist) + 2 <= MaxHist
    /\ messages' = Append(messages, UserMessage(m))
    /\ message' = m
    /\ turn_start' = Hist
    /\ heap' = ListAppend(history, UserMessage(message'))
    /\ request' = [model |-> ModelName, messages |-> heap'[history],
                   tools |-> ToolSchema, temperature |-> temperature]
    /\ n_requests' = 1
    /\ response' = NoResponse
    /\ executed' = <<>>
    /\ outcome' = "running"
    /\ ret' = None
    /\ pc' = "call1"
    /\ UNCHANGED <<history, system_prompt, temperature, tool_calls, idx, ai_output, chunks, fragments>>

\* Raise that first takes the history back to what it was when the turn was invoked.
Raise_Rollback(e) ==
    /\ pc' = "idle"
    /\ outcome' = e
    /\ heap' = [heap EXCEPT ![history] = turn_start]
    /\ tool_calls' = <<>> /\ idx' = 1 /\ ai_output' = "" /\ chunks' = 0
    /\ fragments' = <<>>
    /\ UNCHANGED <<history, system_prompt, temperature, messages, message, request,
                   n_requests, response, executed, turn_start, ret>>

\* The turn ends by the exception e, which propagates to Streamlit.
Raise(e) ==
    /\ pc' = "idle"
    /\ outcome' = e
    /\ tool_calls' = <<>> /\ idx' = 1 /\ ai_output' = "" /\ chunks' = 0
    /\ fragments' = <<>>
    /\ UNCHANGED <<heap, history, system_prompt, temperature, messages, message, request, n_requests,
                   response, executed, turn_start, ret>>

\* The turn ends by returning text, which the chat shows as the assistant's reply.
Return(text) ==
    /\ heap' = ListAppend(history, AssistantMessage(text))
    /\ ret' = text
    /\ messages' = Append(messages, AssistantMessage(text))
    /\ pc' = "idle"
    /\ outcome' = "returned"
    /\ tool_calls' = <<>> /\ idx' = 1 /\ ai_output' = "" /\ chunks' = 0
    /\ fragments' = <<>>
    /\ UNCHANGED <<history, system_prompt, temperature, message, request, n_requests, executed,
                   turn_start>>

\* client.chat.completions.create raises on the first call.
FirstCallFails ==
    /\ pc = "call1"
    /\ Raise("ModelCallFailed")

\* The first response carries no tool calls: its content is the answer.
FirstCallDirect(content) ==
    /\ pc = "call1"
    /\ response' = [received |-> TRUE, tool_calls |-> <<>>]
    /\ Return(content)

\* The declaration of the batch also records the content that came beside it.
FirstCallTools_KeepsContent(b, content) ==
    /\ pc = "call1"
    /\ response' = [received |-> TRUE, tool_calls |-> b]
    /\ tool_calls' = b
    /\ heap' = ListAppend(history, [role |-> "assistant", content |-> content,
                                    tool_calls |-> ToolCallsMessage(b).tool_calls])
    /\ idx' = 1
    /\ pc' = "tools"
    /\ UNCHANGED <<history, system_prompt, temperature, message, messages, ai_output, chunks, fragments,
                   request, n_requests, executed, turn_start, outcome, ret>>

\* The first response carries the batch b, and content beside it that this branch
\* never reads: the batch is declared in the history and the loop over it begins.
FirstCallTools(b, content) ==
    /\ pc = "call1"
    /\ response' = [received |-> TRUE, tool_calls |-> b]
    /\ tool_calls' = b
    /\ heap' = ListAppend(history, ToolCallsMessage(b))
    /\ idx' = 1
    /\ pc' = "tools"
    /\ UNCHANGED <<history, system_prompt, temperature, message, messages, ai_output, chunks, fragments,
                   request, n_requests, executed, turn_start, outcome, ret>>

\* One iteration of the loop of _process_tool_calls.
ProcessToolCall ==
    /\ pc = "tools"
    /\ idx <= Len(tool_calls)
    /\ LET tool_call == tool_calls[idx]
           name_function == tool_call.function.name
           args == ParseArgs(tool_call.function.arguments)
           d == Dispatch(name_function, args)
       IN IF d.raised
          THEN Raise("KeyError")
          ELSE /\ \E result \in d.results :
                    heap' = ListAppend(history, ToolMessage(result, tool_call.id))
               /\ executed' = Append(executed, [index |-> idx, called |-> d.called])
               /\ idx' = idx + 1
               /\ UNCHANGED <<history, system_prompt, temperature, message, messages, pc, tool_calls,
                              ai_output, chunks, fragments, request, n_requests, response, turn_start,
                              outcome, ret>>

\* The second request sent as the first is: with the tool schema and the temperature.
SecondCall_WithTools ==
    /\ pc = "tools"
    /\ idx > Len(tool_calls)
    /\ request' = [model |-> ModelName, messages |-> Hist, tools |-> ToolSchema,
                   temperature |-> temperature, stream |-> TRUE]
    /\ n_requests' = n_requests + 1
    /\ pc' = "call2"
    /\ UNCHANGED <<heap, history, system_prompt, temperature, messages, message, tool_calls,
                   idx, ai_output, chunks, fragments, response, executed, turn_start,
                   outcome, ret>>

\* The loop is over: _generate_final_response sends the second (streamed) request.
SecondCall ==
    /\ pc = "tools"
    /\ idx > Len(tool_calls)
    /\ request' = [model |-> ModelName, messages |-> Hist, stream |-> TRUE]
    /\ n_requests' = n_requests + 1
    /\ pc' = "call2"
    /\ UNCHANGED <<heap, history, system_prompt, temperature, messages, message, tool_calls, idx,
                   ai_output, chunks, fragments, response, executed, turn_start, outcome, ret>>

\* client.chat.completions.create raises on the second call.
SecondCallFails ==
    /\ pc = "call2"
    /\ Raise("ModelCallFailed")

\* The second call returns a stream; ai_output = "".
StreamOpens ==
    /\ pc = "call2"
    /\ ai_output' = ""
    /\ chunks' = 0
    /\ fragments' = <<>>
    /\ pc' = "stream"
    /\ UNCHANGED <<heap, history, system_prompt, temperature, messages, message, tool_calls, idx,
                   request, n_requests, response, executed, turn_start, outcome, ret>>

\* The fragment is put in front of the text accumulated so far.
StreamChunk_Prepend(delta) ==
    /\ pc = "stream"
    /\ chunks < MaxChunks
    /\ ai_output' = IF delta # None /\ delta # "" THEN delta \o ai_output ELSE ai_output
    /\ chunks' = chunks + 1
    /\ fragments' = Append(fragments, delta)
    /\ UNCHANGED <<heap, history, system_prompt, temperature, messages, message, pc,
                   tool_calls, idx, request, n_requests, response, executed, turn_start,
                   outcome, ret>>

\* One fragment arrives; a None or empty delta.content is skipped.
StreamChunk(delta) ==
    /\ pc = "stream"
    /\ chunks < MaxChunks
    /\ ai_output' = IF delta # None /\ delta # "" THEN ai_output \o delta ELSE ai_output
    /\ chunks' = chunks + 1
    /\ fragments' = Append(fragments, delta)
    /\ UNCHANGED <<heap, history, system_prompt, temperature, messages, message, pc, tool_calls, idx,
                   request, n_requests, response, executed, turn_start, outcome, ret>>

\* Iterating the stream raises midway.
StreamFails ==
    /\ pc = "stream"
    /\ Raise("ModelCallFailed")

\* The exhausted stream is consumed again from its beginning.
StreamEnds_Rewinds ==
    /\ pc = "stream"
    /\ chunks' = 0
    /\ ai_output' = ""
    /\ fragments' = <<>>
    /\ UNCHANGED <<heap, history, system_prompt, temperature, messages, message, pc,
                   tool_calls, idx, request, n_requests, response, executed, turn_start,
                   outcome, ret>>

\* The stream is exhausted: the accumulated text is the answer.
StreamEnds ==
    /\ pc = "stream"
    /\ UNCHANGED response
    /\ Return(ai_output)

(* ---- GUI._clear_chat_history ------------------------------------------ *)
ClearHistory ==
    /\ pc = "idle"
    /\ messages' = <<>>
    /\ history' = system_prompt
    /\ UNCHANGED <<heap, system_prompt, temperature, pc, message, tool_calls, idx, ai_output, chunks, fragments,
                   request, n_requests, response, executed, turn_start, outcome, ret>>

Next ==
    \/ \E m \in UserInputs : UserInput(m)
    \/ FirstCallFails
    \/ \E content \in Contents : FirstCallDirect(content)
    \/ \E n \in 1..MaxCalls :
          /\ Len(Hist) + n + 2 <= MaxHist
          /\ \E b \in Batches(n), content \in Contents : FirstCallTools(b, content)
    \/ ProcessToolCall
    \/ SecondCall
    \/ SecondCallFails
    \/ StreamOpens
    \/ \E delta \in Deltas : StreamChunk(delta)
    \/ StreamFails
    \/ StreamEnds
    \/ ClearHistory

Spec == Init /\ [][Next]_vars

\* The steps of a turn in progress. Each is a return or a failure of a blocking call
\* (a model call, a tool callable, the next fragment of the stream) or plain
\* sequential code, so a turn in progress always takes its next step.
TurnStep ==
    \/ FirstCallFails
    \/ \E content \in Contents : FirstCallDirect(content)
    \/ \E n \in 1..MaxCalls :
          /\ Len(Hist) + n + 2 <= MaxHist
          /\ \E b \in Batches(n), content \in Contents : FirstCallTools(b, content)
    \/ ProcessToolCall
    \/ SecondCall
    \/ SecondCallFails
    \/ StreamOpens
    \/ \E delta \in Deltas : StreamChunk(delta)
    \/ StreamFails
    \/ StreamEnds

FairSpec == Spec /\ WF_vars(TurnStep)

\* The same program with the stream's fragments drawn from the wider StreamDeltas
\* and the batches from LeanBatches.
NextStream ==
    \/ \E m \in UserInputs : UserInput(m)
    \/ FirstCallFails
    \/ \E content \in Contents : FirstCallDirect(content)
    \/ \E n \in 1..MaxCalls :
          /\ Len(Hist) + n + 2 <= MaxHist
          /\ \E b \in LeanBatches(n), content \in Contents : FirstCallTools(b, content)
    \/ ProcessToolCall
    \/ SecondCall
    \/ SecondCallFails
    \/ StreamOpens
    \/ \E delta \in StreamDeltas : StreamChunk(delta)
    \/ StreamFails
    \/ StreamEnds
    \/ ClearHistory

StreamSpec == Init /\ [][NextStream]_vars

(* ======================================================================= *)
(* Properties                                                              *)
(* ======================================================================= *)

\* The turn that was begun last is over.
TurnOver == pc = "idle" /\ outcome \notin {"none", "running"}
\* Length of the history when the turn was invoked; tool calls its first response asked for.
TurnBase == Len(turn_start)
Requested == Len(response.tool_calls)
IsToolCallsMessage(msg) == msg.role = "assistant" /\ "tool_calls" \in DOMAIN msg
IsToolMessage(msg) == msg.role = "tool"

\* The history grew by user, assistant-with-calls, one tool message per request of
\* the first response (same ids, same order), final assistant.
ToolTurnShape ==
    /\ Len(Hist) = TurnBase + Requested + 3
    /\ SubSeq(Hist, 1, TurnBase) = turn_start
    /\ Hist[TurnBase + 1] = UserMessage(message)
    /\ IsToolCallsMessage(Hist[TurnBase + 2])
    /\ Len(Hist[TurnBase + 2].tool_calls) = Requested
    /\ \A i \in 1..Requested :
          /\ IsToolMessage(Hist[TurnBase + 2 + i])
          /\ Hist[TurnBase + 2 + i].tool_call_id = response.tool_calls[i].id
          /\ Hist[TurnBase + 2].tool_calls[i].id = response.tool_calls[i].id
    /\ Hist[TurnBase + Requested + 3].role = "assistant"
    /\ "content" \in DOMAIN Hist[TurnBase + Requested + 3]

\* C1 (as claimed): every turn whose first response requests N >= 1 tool calls, and
\* in which no model call fails, ends with the history grown by exactly N + 3
\* messages: user, assistant with tool_calls, N tool messages answering the N
\* requests in order, final assistant; for every tool name and argument string.
C1_ToolTurnGrowsByNPlus3 ==
    (TurnOver /\ response.received /\ Requested >= 1 /\ outcome # "ModelCallFailed")
        => ToolTurnShape

\* C2: a turn whose first response requests no tool calls returns, has sent one
\* model request only, and leaves the history grown by exactly the user message
\* with the literal input and one assistant message whose content is the text
\* returned.
C2_DirectTurnGrowsBy2 ==
    (TurnOver /\ response.received /\ Requested = 0) =>
        /\ outcome = "returned"
        /\ n_requests = 1
        /\ Len(Hist) = TurnBase + 2
        /\ SubSeq(Hist, 1, TurnBase) = turn_start
        /\ Hist[TurnBase + 1] = [role |-> "user", content |-> message]
        /\ Hist[TurnBase + 2] = [role |-> "assistant", content |-> ret]

\* C2 witness: a second turn on the instance was answered directly and has returned.
C2_Witness ==
    /\ TurnOver /\ response.received /\ Requested = 0
    /\ outcome = "returned" /\ ret = None /\ TurnBase > 1

\* C3 (as claimed): when a model call fails (the first call, the second call, or
\* the stream midway), the history is left as it was when the turn was invoked.
C3_FailedCallLeavesHistoryAsBefore ==
    (TurnOver /\ outcome = "ModelCallFailed") => Hist = turn_start


\* C4 (as claimed): after the clear-history operation, performed when the last turn
\* has completed, the history has length 1 and its single element is the original
\* system message.
C4_ResetRestoresSystemPromptOnly ==
    [][(ClearHistory /\ outcome = "returned")
          => (Len(Hist') = 1 /\ Hist'[1] = SystemMessage)]_vars

\* The tool call the loop of _process_tool_calls is about to process.
AtToolCall == pc = "tools" /\ idx <= Len(tool_calls)
\* The step appends exactly one tool message, answering that call, and the loop goes on.
AnswersToolCall ==
    /\ pc' = "tools"
    /\ idx' = idx + 1
    /\ Len(Hist') = Len(Hist) + 1
    /\ SubSeq(Hist', 1, Len(Hist)) = Hist
    /\ IsToolMessage(Hist'[Len(Hist')])
    /\ Hist'[Len(Hist')].tool_call_id = tool_calls[idx].id
\* The arguments parse to a mapping that lacks the key the named tool needs.
LacksNeededKey(tc) ==
    /\ ~json_loads(tc.function.arguments).raised
    /\ \/ /\ tc.function.name = "fetch_wikipedia_information"
          /\ "wikipedia_query" \notin json_loads(tc.function.arguments).value.keys
       \/ /\ tc.function.name = "fetch_internet_information"
          /\ "query" \notin json_loads(tc.function.arguments).value.keys

\* C5 (as claimed): a call of a known tool whose parsed arguments lack the key the
\* tool needs is answered by a tool message (carrying an error text); the lookup
\* failure does not end tool processing or the turn.
C5_MissingArgumentIsAbsorbed ==
    [][(AtToolCall /\ LacksNeededKey(tool_calls[idx])) => AnswersToolCall]_vars

\* C6 (as claimed): whatever call of a batch fails, every request of the batch is
\* executed, in order, each with its own tool message, and the second model
\* call is issued.
C6_BatchIsNeverAborted ==
    (TurnOver /\ response.received /\ Requested >= 1) =>
        /\ Len(executed) = Requested
        /\ \A i \in 1..Requested : executed[i].index = i
        /\ n_requests = 2

\* C7 (as claimed): for every tool name, a call whose raw arguments are not valid
\* JSON is answered by a tool message and processing goes on; nothing is raised.
C7_MalformedArgumentsNeverRaise ==
    [][(AtToolCall /\ json_loads(tool_calls[idx].function.arguments).raised)
          => AnswersToolCall]_vars

\* C8: a call whose name is none of the three known tools invokes no tool
\* callable and is answered by a tool message whose result message is exactly
\* "Error: not all variables have been provided.", whatever its arguments; the
\* loop then goes on with the next call.
C8_UnknownToolGetsSentinel ==
    [][(AtToolCall /\ tool_calls[idx].function.name \notin
                        {"fetch_wikipedia_information", "fetch_internet_information",
                         "get_current_date_and_time"})
          => /\ AnswersToolCall
             /\ Hist'[Len(Hist')].content =
                  json_dumps("success", "Error: not all variables have been provided.")
             /\ executed' = Append(executed, [index |-> idx, called |-> FALSE])]_vars

\* C8 witness: an unknown tool with malformed arguments was answered without a
\* tool callable being invoked, and the turn has reached its streamed answer.
C8_Witness ==
    /\ pc = "stream"
    /\ \E i \in 1..Len(executed) :
          /\ ~executed[i].called
          /\ response.tool_calls[executed[i].index].function.name = "unknown_tool"
          /\ response.tool_calls[executed[i].index].function.arguments = "{not json"

\* C9: every tool message of the history answers a call declared by the assistant
\* tool_calls message that precedes it with only tool messages in between; and
\* while the batch is processed that declaration is already in the history.
C9_ToolMessagesAreDeclared ==
    /\ \A i \in 1..Len(Hist) :
          IsToolMessage(Hist[i]) =>
            \E j \in 1..(i - 1) :
               /\ IsToolCallsMessage(Hist[j])
               /\ \A k \in (j + 1)..(i - 1) : IsToolMessage(Hist[k])
               /\ \E c \in 1..Len(Hist[j].tool_calls) :
                     Hist[j].tool_calls[c].id = Hist[i].tool_call_id
    /\ (pc = "tools" \/ executed # <<>>) =>
          /\ Len(Hist) >= TurnBase + 2
          /\ IsToolCallsMessage(Hist[TurnBase + 2])
          /\ Len(Hist[TurnBase + 2].tool_calls) = Requested

\* C9 witness: both calls of a batch of two have been answered.
C9_Witness ==
    /\ pc = "call2" /\ Len(executed) = 2
    /\ IsToolMessage(Hist[Len(Hist)]) /\ IsToolMessage(Hist[Len(Hist) - 1])

\* The first element is the system message and no other element is a system message.
SystemMessageFirstOnly ==
    /\ Len(Hist) >= 1
    /\ Hist[1] = SystemMessage
    /\ \A i \in 2..Len(Hist) : Hist[i].role # "system"

\* C10: in every state the first element of the history is the system message
\* and no other element has role system; every step other than clear-history
\* keeps the history it found as a prefix of the history it leaves.
C10_SystemFirstAppendOnly ==
    /\ []SystemMessageFirstOnly
    /\ [][~ClearHistory =>
            (Len(Hist') >= Len(Hist) /\ SubSeq(Hist', 1, Len(Hist)) = Hist)]_vars

\* C10 witness: a turn failed inside the batch, the history was cleared afterwards,
\* and the history still holds the system message first.
C10_Witness ==
    /\ TurnOver /\ outcome = "KeyError" /\ messages = <<>>
    /\ Len(Hist) >= 3 /\ Hist[1] = SystemMessage

\* The result texts that report a failure: the unknown-tool sentinel and the error
\* texts of the two tools that can fail.
ErrorTexts ==
    {"Error: not all variables have been provided.",
     "Error during Wikipedia search for q: timeout",
     "Search error: timeout"}

\* C11 (as claimed): a tool message whose message is an error text carries a
\* status marked as error, not success.
C11_FailedToolCallHasErrorStatus ==
    \A i \in 1..Len(Hist) :
        IsToolMessage(Hist[i]) =>
            \A e \in ErrorTexts, st \in {"success", "error"} :
                Hist[i].content = json_dumps(st, e) => st = "error"

\* The first request of a turn: non-streamed, over the history as invoked plus the
\* user message, with the tool schema and the configured temperature.
FirstRequestShape ==
    /\ DOMAIN request = {"model", "messages", "tools", "temperature"}
    /\ request.tools = ToolSchema
    /\ request.temperature = temperature
    /\ request.messages = Append(turn_start, [role |-> "user", content |-> message])

\* The second request of a turn: streamed, without tool schema, over the history
\* extended by the tool_calls declaration and one tool message per request.
SecondRequestShape ==
    /\ DOMAIN request = {"model", "messages", "stream"}
    /\ request.stream = TRUE
    /\ Requested >= 1
    /\ Len(executed) = Requested
    /\ Len(request.messages) = TurnBase + 2 + Requested
    /\ SubSeq(request.messages, 1, TurnBase + 1) =
          Append(turn_start, [role |-> "user", content |-> message])
    /\ IsToolCallsMessage(request.messages[TurnBase + 2])
    /\ Len(request.messages[TurnBase + 2].tool_calls) = Requested
    /\ \A i \in 1..Requested :
          /\ IsToolMessage(request.messages[TurnBase + 2 + i])
          /\ request.messages[TurnBase + 2 + i].tool_call_id = response.tool_calls[i].id

\* C12: the second request of a turn is sent only once all N tool messages of the
\* batch are in the history, over that extended history, streamed and without
\* tool schema; the first request of every turn carries the tool schema and the
\* configured temperature.
C12_RequestsCarryRightHistoryAndTools ==
    /\ n_requests \in 0..2
    /\ n_requests = 1 => FirstRequestShape
    /\ n_requests = 2 => SecondRequestShape

\* C12 witness: the second request of a two-call turn is in flight.
C12_Witness ==
    /\ pc = "call2" /\ n_requests = 2 /\ Requested = 2
    /\ "tools" \notin DOMAIN request

\* The text of a fragment (none for a content-less one) and the concatenation of
\* the texts of a sequence of fragments, in order.
TextOf(delta) == IF delta = None THEN "" ELSE delta
RECURSIVE ConcatFragments(_)
ConcatFragments(fs) ==
    IF fs = <<>> THEN "" ELSE TextOf(Head(fs)) \o ConcatFragments(Tail(fs))

\* C13: while the stream is consumed the history does not change; when it ends the
\* turn returns the concatenation of the contents of all fragments delivered,
\* in arrival order, and appends exactly one assistant message with that text;
\* when it fails nothing is appended.
C13_StreamedAnswerIsConcatenation ==
    [][pc = "stream" =>
          IF pc' = "idle" /\ outcome' = "returned"
          THEN /\ ret' = ConcatFragments(fragments)
               /\ Hist' = Append(Hist, [role |-> "assistant", content |-> ret'])
          ELSE Hist' = Hist]_vars

\* C13 witness: two fragments arrived and the turn returned their texts in order.
C13_Witness ==
    /\ TurnOver /\ outcome = "returned" /\ n_requests = 2
    /\ ret = "It is noon."
    /\ Hist[Len(Hist)] = [role |-> "assistant", content |-> "It is noon."]

\* C14: once the first response of a turn has requested tool calls, the message
\* right after the turn's user message is an assistant message that has no
\* content field and whose tool_calls are the requests of the response, all of
\* them and only them, in the order received, each with its id, type and
\* function descriptor.
C14_DeclarationListsRequestsVerbatim ==
    (response.received /\ Requested >= 1) =>
        /\ Len(Hist) >= TurnBase + 2
        /\ Hist[TurnBase + 2] =
               [role |-> "assistant", tool_calls |-> response.tool_calls]
        /\ DOMAIN Hist[TurnBase + 2] = {"role", "tool_calls"}

\* C14 witness: a response of two requests whose ids run against their order has
\* just been declared.
C14_Witness ==
    /\ pc = "tools" /\ idx = 1 /\ Requested = 2
    /\ response.tool_calls[1].id = 2 /\ response.tool_calls[2].id = 1
    /\ IsToolCallsMessage(Hist[Len(Hist)])

\* C15: when every pending model call, tool call and stream step eventually
\* happens, a turn that has begun ends (with the text returned or a failure
\* raised) and the loop awaits user input again; and the loop over the tool
\* calls visits the requests of the response one after the other, none twice.
C15_EveryTurnEnds ==
    /\ (pc # "idle") ~> (pc = "idle" /\ outcome \in {"returned", "ModelCallFailed", "KeyError"})
    /\ [](/\ Len(executed) <= Requested
          /\ \A i \in 1..Len(executed) : executed[i].index = i)

\* C15 witness: a turn with a batch of MaxCalls requests and a streamed answer of
\* MaxChunks fragments has ended and returned.
C15_Witness ==
    /\ TurnOver /\ outcome = "returned"
    /\ Requested = MaxCalls /\ Len(executed) = MaxCalls
    /\ n_requests = 2 /\ ret = "It is It is "

\* C16: in every reachable state the stored system prompt is a list of exactly
\* one message, the original system message; turns do not change it.
C16_SystemPromptIsNeverChanged ==
    heap[system_prompt] = <<SystemMessage>>

\* A list of messages is well-formed for the chat-completion protocol: every
\* assistant message with tool_calls is followed at once by one tool message per
\* declared id, in declaration order, and by no further tool message; every user
\* message before the last `own` messages is followed by an assistant message.
WellFormed(ms, earlier) ==
    /\ \A i \in 1..Len(ms) :
          IsToolCallsMessage(ms[i]) =>
              LET n == Len(ms[i].tool_calls)
              IN /\ i + n <= Len(ms)
                 /\ \A k \in 1..n :
                       /\ IsToolMessage(ms[i + k])
                       /\ ms[i + k].tool_call_id = ms[i].tool_calls[k].id
                 /\ i + n + 1 <= Len(ms) => ~IsToolMessage(ms[i + n + 1])
    /\ \A i \in 1..earlier :
          ms[i].role = "user" => (i + 1 <= Len(ms) /\ ms[i + 1].role = "assistant")

\* C17: the messages of every request sent to the model, the first and the second
\* of every turn, are well-formed, whatever turns came before on the instance.
C17_RequestsAreWellFormed ==
    n_requests >= 1 => WellFormed(request.messages, TurnBase)

\* C18: a turn sends at most two requests; exactly one once the first response
\* has come without tool calls, exactly two by the end of a turn whose first
\* response requested tool calls; and after the second request no further batch
\* is declared or executed: the history past the turn's user message holds the
\* one declaration, its tool messages and at most the final answer.
C18_AtMostTwoCallsOneBatch ==
    /\ n_requests <= 2
    /\ (response.received /\ Requested = 0) => n_requests = 1
    /\ (TurnOver /\ response.received /\ Requested >= 1) => n_requests = 2
    /\ n_requests = 2 =>
          /\ response.received /\ Requested >= 1
          /\ Len(executed) = Requested
          /\ \A i \in (TurnBase + 3)..Len(Hist) : ~IsToolCallsMessage(Hist[i])
          /\ Len(Hist) \in {TurnBase + 2 + Requested, TurnBase + 3 + Requested}

====
